---- MODULE Spec2Model ----
(***************************************************************************)
(* Model of the launcher in src/main.py: the process supervisor            *)
(* (launch_instance, kill_instance and the QProcess signal handlers), the  *)
(* log viewer, the download worker (GameDownloader, start_download), and   *)
(* the registry (InstanceManager) with its backing file.                   *)
(*                                                                         *)
(* Library semantics the model relies on:                                  *)
(*  - QProcess.start() forks and enters Starting; started() or             *)
(*    errorOccurred(FailedToStart) follows; on the death of the child the  *)
(*    object emits errorOccurred(Crashed) (killed by a signal) and then    *)
(*    finished(exitCode, exitStatus);                                      *)
(*  - the program started is always "setsid" with the instance path as its *)
(*    argument: a missing instance executable is found by setsid after it  *)
(*    has started, and setsid then exits with a non-zero code;             *)
(*  - a QProcess created from Python without a parent is owned by Python:  *)
(*    `process = None` drops the last reference and runs ~QProcess, which  *)
(*    kills the child, waits for it and destroys the object with its       *)
(*    connections;                                                         *)
(*  - an exception that leaves a slot is printed by PySide and the event   *)
(*    loop goes on (variable exc keeps the last one).                      *)
(***************************************************************************)
EXTENDS Integers, Sequences, FiniteSets, TLC

VARIABLES
    platform,   \* sys.platform: "posix" or "win32"
    instances,  \* instance_manager.instances: sequence of [name, path]
    file,       \* the backing file instances.json
    process,    \* global process: 0 is None, else the id of a QProcess object
    qprocs,     \* the QProcess objects created so far, by id
    procs,      \* the OS processes forked so far, by pid
    status,     \* text of the status label
    log,        \* contents of the log viewer
    exc,        \* exception that left the last slot ("" when it returned)
    blocked,    \* blocking call the supervisor's last slot made in the
                \* interactive thread ("" when it made none)
    downloader, \* global downloader: 0 is None, else the id of a GameDownloader
    jobs,       \* the GameDownloader threads created so far, by id
    dialog,     \* id of the job whose modal progress dialog is open, or 0
    mainq       \* signals queued from the workers to the interactive thread

regvars == <<instances, file>>
supvars == <<process, qprocs, procs, status, log, exc, blocked>>
dlvars == <<downloader, jobs, dialog, mainq>>
vars == <<platform, regvars, supvars, dlvars>>

\* Bounds of the model.
MaxLaunches == 2
MaxLog == 2
MaxJobs == 2
MaxSize == 3
MaxInstances == 3

----------------------------------------------------------------------------
\* Values

\* A path is the sequence of its components; os.path.dirname drops the last.
dirname(path) == SubSeq(path, 1, Len(path) - 1)

Instance(n, p) == [name |-> n, path |-> p]

\* The registry the session was started with (load_instances).
LoadedInstances ==
    << Instance("A", <<"g", "a">>), Instance("B", <<"h", "b">>), Instance("C", <<"c">>) >>

\* status.setText(...): the label text, with the f-string's arguments kept apart.
Text(t) == [text |-> t, name |-> "", code |-> 0]
TextName(t, n) == [text |-> t, name |-> n, code |-> 0]
TextCode(t, c) == [text |-> t, name |-> "", code |-> c]

\* A destroyed QProcess.
NoObject ==
    [live |-> FALSE, state |-> "NotRunning", pid |-> 0, capName |-> "", wd |-> <<>>, arg |-> ""]

\* QProcess(): a new object, not running, with the started-lambda's captured
\* instance name.
NewQProcess(n) ==
    [live |-> TRUE, state |-> "NotRunning", pid |-> 0, capName |-> n, wd |-> <<>>, arg |-> ""]

\* os.fork in QProcess.start: the child, what it will exec, and what has
\* happened to it (sig: the SIGKILL sent to it; abandoned: its QProcess was
\* destroyed before its exit was seen; notified: the exit or error slots ran
\* for it).
NewProc(setsidOk, exeOk) ==
    [setsidOk |-> setsidOk, exeOk |-> exeOk, alive |-> setsidOk,
     code |-> 0, crashed |-> FALSE, sig |-> "none",
     abandoned |-> FALSE, notified |-> FALSE]

\* The QProcess has seen the end of its child and reaped it: the system keeps
\* nothing of the child.
Reaped(p) ==
    [setsidOk |-> TRUE, exeOk |-> TRUE, alive |-> FALSE,
     code |-> 0, crashed |-> FALSE, sig |-> p.sig,
     abandoned |-> FALSE, notified |-> TRUE]

\* os.path.exists(working_dir): "" never exists.
exists(working_dir, wdExists) == working_dir # <<>> /\ wdExists

\* os.makedirs(working_dir, exist_ok=True) returns: "" always raises.
makedirs_ok(working_dir, mkdirOk) == working_dir # <<>> /\ mkdirOk

\* What a launch can find on the machine: whether the working directory
\* exists, whether it can be created when it does not, whether setsid can be
\* executed, and whether the instance's executable can. (A game is only
\* executed by a setsid that runs; a directory that exists needs no creating.)
LaunchEnvs ==
    { e \in [wdExists : BOOLEAN, mkdirOk : BOOLEAN, setsidOk : BOOLEAN, exeOk : BOOLEAN] :
        /\ e.wdExists => e.mkdirOk
        /\ ~e.setsidOk => ~e.exeOk
        /\ ~e.mkdirOk => ~e.setsidOk }

----------------------------------------------------------------------------
\* InstanceManager and its backing file

\* json.dump of the list of {"name": ..., "path": ...} objects: the text of the
\* file, one <<name, path>> entry per object, in the order of the list.
json_dump(insts) == [i \in DOMAIN insts |-> <<insts[i].name, insts[i].path>>]

\* json.load of such a text.
json_load(text) == [i \in DOMAIN text |-> Instance(text[i][1], text[i][2])]

\* The states of instances.json: there is no such file; it cannot be opened
\* for reading; its text is not JSON; or its text is the dump of a list.
MissingFile == [kind |-> "missing", text |-> <<>>]
UnreadableFile == [kind |-> "unreadable", text |-> <<>>]
GarbageFile == [kind |-> "garbage", text |-> <<>>]
SavedFile(insts) == [kind |-> "json", text |-> json_dump(insts)]

\* load_instances: the parsed list, or [] when the file does not exist or
\* open or json.load raises (the exception is printed).
load_instances(f) == IF f.kind = "json" THEN json_load(f.text) ELSE <<>>

\* What a write of the file can do: succeed; fail in open(.., "w"), which
\* leaves the file as it was; fail in json.dump after open has truncated the
\* file, which leaves a text that is not JSON.
WriteOutcomes == {"ok", "open_raises", "dump_raises"}

\* save_instances: the exception of a failed write is printed, not raised.
save_instances(f, insts, wr) ==
    IF wr = "ok" THEN SavedFile(insts)
    ELSE IF wr = "open_raises" THEN f
    ELSE GarbageFile

\* self.instances.append({"name": name, "path": path})
add_instance(insts, name, path) == Append(insts, Instance(name, path))

\* if 0 <= index < len(self.instances): del self.instances[index]
InRange(insts, index) == 0 <= index /\ index < Len(insts)

remove_instance(insts, index) ==
    IF InRange(insts, index)
    THEN SubSeq(insts, 1, index) \o SubSeq(insts, index + 2, Len(insts))
    ELSE insts

----------------------------------------------------------------------------
\* Signal handlers of the QProcess

handle_finished_IgnoresStatus(exit_code, exit_status) ==
    IF exit_code = 0 THEN Text("Finished")
    ELSE TextCode("Finished (Exit Code)", exit_code)

handle_finished(exit_code, exit_status) ==
    IF exit_status = "CrashExit" THEN Text("Crashed")
    ELSE IF exit_code = 0 THEN Text("Finished")
    ELSE TextCode("Finished (Exit Code)", exit_code)

handle_error(error) ==
    IF error = "FailedToStart"
    THEN Text("Error: Binary not found or failed to start")
    ELSE TextName("Process Error", error)

\* process.started.connect(lambda: status.setText(f"Running: {instance['name']}"))
started_lambda(q) == TextName("Running", q.capName)

----------------------------------------------------------------------------
\* launch_instance

\* process.state() == QProcess.ProcessState.NotRunning
NotRunningCheckSkipped(q) == TRUE
IsNotRunning(q) == q.state = "NotRunning"

launch_instance(sel, wdExists, mkdirOk, setsidOk, exeOk) ==
    /\ dialog = 0
    /\ IF sel = 0
       THEN /\ status' = Text("No instance selected")
            /\ exc' = ""
            /\ blocked' = ""
            /\ UNCHANGED <<platform, regvars, process, qprocs, procs, log, dlvars>>
       ELSE LET instance == instances[sel]
                working_dir == dirname(instance.path)
                h == IF process = 0 THEN Len(qprocs) + 1 ELSE process
                q1 == IF process = 0 THEN Append(qprocs, NewQProcess(instance.name))
                      ELSE qprocs
            IN  /\ Len(log) < MaxLog
                /\ log' = Append(log, "banner")
                /\ process' = h
                /\ UNCHANGED <<platform, regvars, dlvars>>
                /\ IF IsNotRunning(q1[h])
                   THEN IF ~exists(working_dir, wdExists) /\ ~makedirs_ok(working_dir, mkdirOk)
                        THEN \* os.makedirs raises out of the slot
                             /\ qprocs' = [q1 EXCEPT ![h].wd = working_dir]
                             /\ status' = TextName("Launching", instance.name)
                             /\ exc' = "OSError"
                             /\ blocked' = ""
                             /\ UNCHANGED procs
                        ELSE \* process.start("setsid", [instance_path])
                             /\ Len(procs) < MaxLaunches
                             /\ procs' = Append(procs, NewProc(setsidOk, exeOk))
                             /\ qprocs' = [q1 EXCEPT ![h].wd = working_dir,
                                                     ![h].arg = instance.name,
                                                     ![h].state = "Starting",
                                                     ![h].pid = Len(procs) + 1]
                             /\ status' = TextName("Launching", instance.name)
                             /\ exc' = ""
                             /\ blocked' = "start"
                   ELSE /\ status' = Text("Already running")
                        /\ qprocs' = q1
                        /\ exc' = ""
                        /\ blocked' = ""
                        /\ UNCHANGED procs

----------------------------------------------------------------------------
\* Events of the QProcess objects (delivered by the event loop)

\* The child exec'ed setsid: started() is emitted.
StartedEvent(o) ==
    /\ qprocs[o].live /\ qprocs[o].state = "Starting"
    /\ procs[qprocs[o].pid].setsidOk
    /\ qprocs' = [qprocs EXCEPT ![o].state = "Running"]
    /\ status' = started_lambda(qprocs[o])
    /\ exc' = ""
    /\ blocked' = ""
    /\ UNCHANGED <<platform, regvars, process, procs, log, dlvars>>

\* The child could not exec setsid: errorOccurred(FailedToStart).
FailedToStartEvent(o) ==
    /\ qprocs[o].live /\ qprocs[o].state = "Starting"
    /\ ~procs[qprocs[o].pid].setsidOk
    /\ qprocs' = [qprocs EXCEPT ![o].state = "NotRunning"]
    /\ procs' = [procs EXCEPT ![qprocs[o].pid] = Reaped(@)]
    /\ status' = handle_error("FailedToStart")
    /\ exc' = ""
    /\ blocked' = ""
    /\ UNCHANGED <<platform, regvars, process, log, dlvars>>

\* The slots a QProcess runs when it sees that its child p has died: for a
\* child killed by a signal handle_error(Crashed) and then handle_finished,
\* for a child that exited handle_finished; the last one sets the status.
DiedStatus(p) ==
    IF p.crashed THEN handle_finished(p.code, "CrashExit")
    ELSE handle_finished(p.code, "NormalExit")

ProcessDied(o) ==
    /\ qprocs[o].live /\ qprocs[o].state = "Running"
    /\ ~procs[qprocs[o].pid].alive
    /\ qprocs' = [qprocs EXCEPT ![o].state = "NotRunning"]
    /\ procs' = [procs EXCEPT ![qprocs[o].pid] = Reaped(@)]
    /\ status' = DiedStatus(procs[qprocs[o].pid])
    /\ exc' = ""
    /\ blocked' = ""
    /\ UNCHANGED <<platform, regvars, process, log, dlvars>>

\* read_stdout / read_stderr: output of o's child is ready; the slot reads from
\* the global process.
read_output(o) ==
    /\ qprocs[o].live /\ qprocs[o].state = "Running"
    /\ procs[qprocs[o].pid].alive
    /\ Len(log) < MaxLog
    /\ log' = IF process # 0 THEN Append(log, "data") ELSE log
    /\ exc' = ""
    /\ blocked' = ""
    /\ UNCHANGED <<platform, regvars, process, qprocs, procs, status, dlvars>>

read_stdout(o) == read_output(o)

read_stderr(o) == read_output(o)

----------------------------------------------------------------------------
\* The operating system

\* A child exits: by itself with a code, or killed by a signal. setsid whose
\* argument cannot be executed exits with 127; a child that was sent SIGKILL
\* dies of it.
ProcExit(p, code, crashed) ==
    /\ procs[p].alive
    /\ IF crashed THEN code = 0
       ELSE /\ procs[p].sig = "none"
            /\ code \in (IF procs[p].exeOk THEN {0, 1} ELSE {127})
    /\ procs' = [procs EXCEPT ![p].alive = FALSE, ![p].code = code, ![p].crashed = crashed]
    /\ UNCHANGED <<platform, regvars, process, qprocs, status, log, exc, blocked, dlvars>>

----------------------------------------------------------------------------
\* kill_instance

\* process is not None and process.state() == QProcess.ProcessState.Running
IsSetHandle(h, q) == h # 0
IsRunningHandle(h, q) == h # 0 /\ q[h].state = "Running"

\* What os.killpg(os.getpgid(pid), signal.SIGKILL) can do: the functions do not
\* exist on win32 (AttributeError); on POSIX the call succeeds or raises one of
\* the two errors of a lookup or a signal that fails.
KillpgOutcomes(pf) ==
    IF pf = "win32" THEN {"AttributeError"}
    ELSE {"ok", "ProcessLookupError", "PermissionError"}

\* except (ProcessLookupError, PermissionError): process.kill()
IsCaught(outcome) == outcome \in {"ProcessLookupError", "PermissionError"}

\* The SIGKILL sent: to the group, or by process.kill() to the leader.
SignalSent(ps, pid, outcome) ==
    [p \in DOMAIN ps |->
        IF p # pid THEN ps[p]
        ELSE [ps[p] EXCEPT !.sig = IF outcome = "ok" THEN "group" ELSE "leader"]]

\* process.waitForFinished(1000), then ~QProcess (kill, waitForFinished): the
\* death of the child is seen (its slots run) or the waits time out.
WaitedFor(ps, pid, seen) ==
    [p \in DOMAIN ps |->
        IF p # pid THEN ps[p]
        ELSE IF seen \/ ~ps[p].alive
             THEN Reaped(ps[p])
             ELSE [ps[p] EXCEPT !.abandoned = TRUE]]

\* process = None: the last reference goes and the QProcess is destroyed.
DropHandleKeepsObject(q, h) == q
DropHandle(q, h) == [o \in DOMAIN q |-> IF o = h THEN NoObject ELSE q[o]]

kill_instance(outcome, seen) ==
    /\ dialog = 0
    /\ outcome \in KillpgOutcomes(platform)
    /\ IF IsRunningHandle(process, qprocs)
       THEN LET pid == qprocs[process].pid IN
            IF outcome = "ok" \/ IsCaught(outcome)
            THEN /\ procs' = WaitedFor(SignalSent(procs, pid, outcome), pid, seen)
                 /\ qprocs' = DropHandle(qprocs, process)
                 /\ process' = 0
                 /\ status' = Text("Killed")
                 /\ exc' = ""
                 /\ blocked' = "waitForFinished"
                 /\ UNCHANGED <<platform, regvars, log, dlvars>>
            ELSE \* the exception leaves the slot
                 /\ exc' = outcome
                 /\ blocked' = ""
                 /\ UNCHANGED <<platform, regvars, process, qprocs, procs, status, log, dlvars>>
       ELSE /\ status' = Text("Not running")
            /\ exc' = ""
            /\ blocked' = ""
            /\ UNCHANGED <<platform, regvars, process, qprocs, procs, log, dlvars>>

----------------------------------------------------------------------------
\* The supervisor's specification

Init ==
    /\ platform \in {"posix", "win32"}
    /\ file = SavedFile(LoadedInstances)
    /\ instances = load_instances(file)
    /\ process = 0
    /\ qprocs = <<>>
    /\ procs = <<>>
    /\ status = Text("")
    /\ log = <<>>
    /\ exc = ""
    /\ blocked = ""
    /\ downloader = 0
    /\ jobs = <<>>
    /\ dialog = 0
    /\ mainq = <<>>

SupNext ==
    \/ \E sel \in 0..Len(instances), env \in LaunchEnvs :
          launch_instance(sel, env.wdExists, env.mkdirOk, env.setsidOk, env.exeOk)
    \/ \E outcome \in {"ok", "ProcessLookupError", "PermissionError", "AttributeError"},
          seen \in BOOLEAN : kill_instance(outcome, seen)
    \/ \E o \in DOMAIN qprocs : StartedEvent(o)
    \/ \E o \in DOMAIN qprocs : FailedToStartEvent(o)
    \/ \E o \in DOMAIN qprocs : ProcessDied(o)
    \/ \E o \in DOMAIN qprocs : read_stdout(o)
    \/ \E o \in DOMAIN qprocs : read_stderr(o)
    \/ \E p \in DOMAIN procs, code \in {0, 1, 127}, crashed \in BOOLEAN : ProcExit(p, code, crashed)

Spec == Init /\ [][SupNext]_vars

----------------------------------------------------------------------------
\* GameDownloader: one worker thread per job

\* Signals are emitted in the worker and queued to the interactive thread.
Event(j, kind, value) == [job |-> j, kind |-> kind, value |-> value]

\* GameDownloader(url, asset_name, version_tag), started: run() is about to
\* begin. total is the declared content-length, left what the server will still
\* deliver, downloaded the bytes written; emitted keeps the signals emitted;
\* fault and cancelled record a fault in run() and a cancel of the job's dialog.
NewJob(asset, version) ==
    [asset |-> asset, version |-> version, pc |-> "open",
     total |-> 0, body |-> 0, left |-> 0, downloaded |-> 0,
     emitted |-> <<>>, fault |-> FALSE, cancelled |-> FALSE]

\* f"Skakavi Krompir {self.version_tag}"
DisplayName(version) == IF version = "v1" THEN "Skakavi Krompir v1" ELSE "Skakavi Krompir v2"

\* os.path.join(base_dir, self.asset_name)
FilePath(asset) == <<"bin", asset>>

\* int(downloaded * 100 / total_size): the quotient is positive, so the
\* truncation is the floor.
Percent(downloaded, total_size) == (downloaded * 100) \div total_size

\* downloaded += len(chunk)
ReceivedLast(downloaded, n) == n
Received(downloaded, n) == downloaded + n

\* except Exception as e: self.error.emit(str(e)), and run() returns.
PcAfterErrorStays(pc) == pc
PcAfterError(pc) == "done"

Emit(job, j, kind, value) == [job EXCEPT !.emitted = Append(@, Event(j, kind, value))]

Failed(job, j) ==
    [Emit(job, j, "error", 0) EXCEPT !.fault = TRUE, !.pc = PcAfterError(job.pc)]

\* makedirs, requests.get, raise_for_status, the content-length header and
\* open(file_path, 'wb'): any of them may raise.
W_open(j, ok, total, body) ==
    /\ jobs[j].pc = "open"
    /\ IF ok
       THEN /\ jobs' = [jobs EXCEPT ![j] = [@ EXCEPT !.pc = "body", !.total = total,
                                                    !.body = body, !.left = body]]
            /\ UNCHANGED mainq
       ELSE /\ jobs' = [jobs EXCEPT ![j] = Failed(@, j)]
            /\ mainq' = Append(mainq, Event(j, "error", 0))
    /\ UNCHANGED <<platform, regvars, supvars, downloader, dialog>>

\* One turn of the loop over r.iter_content: a non-empty chunk of n bytes is
\* written and counted, and the progress emitted when the length is known; or
\* the read or the write raises.
W_chunk(j, n, ok) ==
    /\ jobs[j].pc = "body"
    /\ n \in 1..jobs[j].left
    /\ IF ok
       THEN LET d == Received(jobs[j].downloaded, n)
                moved == [jobs[j] EXCEPT !.downloaded = d, !.left = @ - n]
            IN  IF jobs[j].total > 0
                THEN /\ jobs' = [jobs EXCEPT ![j] =
                                    Emit(moved, j, "progress", Percent(d, jobs[j].total))]
                     /\ mainq' = Append(mainq, Event(j, "progress", Percent(d, jobs[j].total)))
                ELSE /\ jobs' = [jobs EXCEPT ![j] = moved]
                     /\ UNCHANGED mainq
       ELSE /\ jobs' = [jobs EXCEPT ![j] = Failed(@, j)]
            /\ mainq' = Append(mainq, Event(j, "error", 0))
    /\ UNCHANGED <<platform, regvars, supvars, downloader, dialog>>

\* The body has ended: the file and the response are closed, os.chmod is
\* called unless on win32, and finished is emitted; or one of them raises.
W_finish(j, ok) ==
    /\ jobs[j].pc = "body"
    /\ jobs[j].left = 0
    /\ IF ok
       THEN /\ jobs' = [jobs EXCEPT ![j] = [Emit(@, j, "finished", 0) EXCEPT !.pc = "done"]]
            /\ mainq' = Append(mainq, Event(j, "finished", 0))
       ELSE /\ jobs' = [jobs EXCEPT ![j] = Failed(@, j)]
            /\ mainq' = Append(mainq, Event(j, "error", 0))
    /\ UNCHANGED <<platform, regvars, supvars, downloader, dialog>>

----------------------------------------------------------------------------
\* start_download and the slots of the interactive thread

\* The progress dialog is window-modal: while it is open the main window
\* takes no input.
start_download(asset, version) ==
    /\ dialog = 0
    /\ Len(jobs) < MaxJobs
    /\ jobs' = Append(jobs, NewJob(asset, version))
    /\ downloader' = Len(jobs) + 1
    /\ dialog' = Len(jobs) + 1
    /\ UNCHANGED <<platform, regvars, supvars, mainq>>

\* The user presses Cancel: the dialog closes; nothing is connected to it.
cancel_dialog ==
    /\ dialog # 0
    /\ jobs' = [jobs EXCEPT ![dialog].cancelled = TRUE]
    /\ dialog' = 0
    /\ UNCHANGED <<platform, regvars, supvars, downloader, mainq>>

\* dialog.close() in a slot of job j.
Closed(d, j) == IF d = j THEN 0 ELSE d

\* progress_dialog.setValue(v): at the maximum the dialog resets and hides.
deliver_progress ==
    /\ mainq # <<>> /\ Head(mainq).kind = "progress"
    /\ dialog' = IF Head(mainq).value = 100 THEN Closed(dialog, Head(mainq).job) ELSE dialog
    /\ mainq' = Tail(mainq)
    /\ UNCHANGED <<platform, regvars, supvars, downloader, jobs>>

handle_download_finished(wr) ==
    /\ mainq # <<>> /\ Head(mainq).kind = "finished"
    /\ dialog' = Closed(dialog, Head(mainq).job)
    /\ instances' = add_instance(instances, DisplayName(jobs[Head(mainq).job].version),
                                 FilePath(jobs[Head(mainq).job].asset))
    /\ file' = save_instances(file, instances', wr)
    /\ mainq' = Tail(mainq)
    /\ UNCHANGED <<platform, supvars, downloader, jobs>>

handle_download_error ==
    /\ mainq # <<>> /\ Head(mainq).kind = "error"
    /\ dialog' = Closed(dialog, Head(mainq).job)
    /\ mainq' = Tail(mainq)
    /\ UNCHANGED <<platform, regvars, supvars, downloader, jobs>>

\* The jobs of DlSpec differ in what the server delivers, not in their labels,
\* and its backing file can be written.
DlNext ==
    \/ \E asset \in {"Skakavi-Krompir-Linux"}, version \in {"v1"} :
          start_download(asset, version)
    \/ cancel_dialog
    \/ \E j \in DOMAIN jobs, ok \in BOOLEAN, total, body \in 0..MaxSize : W_open(j, ok, total, body)
    \/ \E j \in DOMAIN jobs, n \in 1..MaxSize, ok \in BOOLEAN : W_chunk(j, n, ok)
    \/ \E j \in DOMAIN jobs, ok \in BOOLEAN : W_finish(j, ok)
    \/ deliver_progress
    \/ handle_download_finished("ok")
    \/ handle_download_error

DlSpec == Init /\ [][DlNext]_vars

\* The behaviours with a single download request: one GameDownloader.run()
\* from its start to its end, and the slots it reaches.
first_download(asset, version) == jobs = <<>> /\ start_download(asset, version)

RunNext ==
    \/ \E asset \in {"Skakavi-Krompir-Linux"}, version \in {"v1", "v2"} :
          first_download(asset, version)
    \/ cancel_dialog
    \/ \E j \in DOMAIN jobs, ok \in BOOLEAN, total, body \in 0..MaxSize : W_open(j, ok, total, body)
    \/ \E j \in DOMAIN jobs, n \in 1..MaxSize, ok \in BOOLEAN : W_chunk(j, n, ok)
    \/ \E j \in DOMAIN jobs, ok \in BOOLEAN : W_finish(j, ok)
    \/ deliver_progress
    \/ \E wr \in WriteOutcomes : handle_download_finished(wr)
    \/ handle_download_error

RunSpec == Init /\ [][RunNext]_vars

----------------------------------------------------------------------------
\* The registry's specification: the operations of InstanceManager applied to
\* every backing file a session can find

\* InstanceManager(): self.instances = self.load_instances()
InstanceManager_init ==
    /\ instances' = load_instances(file)
    /\ UNCHANGED <<platform, file, supvars, dlvars>>

\* instance_manager.add_instance(name, path)
add_instance_call(name, path, wr) ==
    /\ Len(instances) < MaxInstances
    /\ instances' = add_instance(instances, name, path)
    /\ file' = save_instances(file, instances', wr)
    /\ UNCHANGED <<platform, supvars, dlvars>>

\* instance_manager.remove_instance(index)
remove_instance_call(index, wr) ==
    /\ instances' = remove_instance(instances, index)
    /\ file' = IF InRange(instances, index) THEN save_instances(file, instances', wr)
               ELSE file
    /\ UNCHANGED <<platform, supvars, dlvars>>

\* The instances added, and the backing files a session starts with.
RegInputs == {Instance("A", <<"g", "a">>), Instance("B", <<"c">>)}

InitialFiles ==
    {MissingFile, UnreadableFile, GarbageFile, SavedFile(<<>>),
     SavedFile(<<Instance("B", <<"c">>), Instance("A", <<"g", "a">>)>>)}

RegInit ==
    /\ platform \in {"posix", "win32"}
    /\ file \in InitialFiles
    /\ instances = load_instances(file)
    /\ process = 0
    /\ qprocs = <<>>
    /\ procs = <<>>
    /\ status = Text("")
    /\ log = <<>>
    /\ exc = ""
    /\ blocked = ""
    /\ downloader = 0
    /\ jobs = <<>>
    /\ dialog = 0
    /\ mainq = <<>>

RegNext ==
    \/ InstanceManager_init
    \/ \E inst \in RegInputs, wr \in WriteOutcomes :
          add_instance_call(inst.name, inst.path, wr)
    \/ \E index \in -1..(MaxInstances + 1), wr \in WriteOutcomes :
          remove_instance_call(index, wr)

RegSpec == RegInit /\ [][RegNext]_vars

----------------------------------------------------------------------------
\* Claims about the supervisor

\* A call of Launch with an instance selected, and a call of Kill.
LaunchCall ==
    \E sel \in 1..Len(instances), env \in LaunchEnvs :
        launch_instance(sel, env.wdExists, env.mkdirOk, env.setsidOk, env.exeOk)

KillCall ==
    \E outcome \in KillpgOutcomes(platform), seen \in BOOLEAN : kill_instance(outcome, seen)

\* The handle is in Starting or Running.
HandleBusy == process # 0 /\ qprocs[process].state \in {"Starting", "Running"}

HandleRunning == process # 0 /\ qprocs[process].state = "Running"

\* C1: a Launch called while the handle is in Starting or Running ends with the
\* status "Already running", forks no process and creates no QProcess object.
C1_BusyLaunchRejected ==
    [][ (LaunchCall /\ HandleBusy) =>
            /\ status' = Text("Already running")
            /\ procs' = procs
            /\ process' = process
            /\ Len(qprocs') = Len(qprocs) ]_vars

C1_Witness ==
    /\ HandleRunning
    /\ procs[qprocs[process].pid].alive
    /\ status = Text("Already running")

\* C2: a Launch rejected because the handle is in Starting or Running leaves
\* the handle, the process, its working directory, the registry and the log
\* buffer unchanged.
C2_RejectedLaunchChangesNothing ==
    [][ (LaunchCall /\ HandleBusy) =>
            /\ process' = process
            /\ qprocs' = qprocs
            /\ procs' = procs
            /\ instances' = instances
            /\ log' = log ]_vars

\* C3: when Kill has been called on a handle in Running, the handle is None, no
\* QProcess is left in Starting or Running and the status is "Killed", whether
\* or not the exit of the child was seen.
C3_KillClearsHandle ==
    [][ (KillCall /\ HandleRunning) =>
            /\ process' = 0
            /\ \A o \in DOMAIN qprocs' : qprocs'[o].state = "NotRunning"
            /\ status' = Text("Killed") ]_vars

\* C4: once Kill has cleared the handle without having seen the child's exit,
\* no exit or error slot ever runs for that child, and the step in which the
\* child exits changes neither the status nor the handle nor any QProcess.
C4_LateExitIgnored ==
    [][ \A p \in DOMAIN procs :
            procs[p].abandoned =>
                /\ ~procs'[p].notified
                /\ (procs[p].alive /\ ~procs'[p].alive) =>
                       (status' = status /\ process' = process /\ qprocs' = qprocs) ]_vars

C4_Witness ==
    \E p \in DOMAIN procs :
        /\ procs[p].abandoned /\ ~procs[p].alive
        /\ HandleRunning /\ qprocs[process].pid # p
        /\ status.text = "Running"

\* C5: a process launched for an instance whose executable does not exist is
\* never reported Running or Finished: its handle never reaches Running.
C5_MissingExecutableNeverRuns ==
    \A o \in DOMAIN qprocs :
        (qprocs[o].live /\ qprocs[o].pid # 0 /\ ~procs[qprocs[o].pid].exeOk) =>
            /\ qprocs[o].state # "Running"
            /\ status.text \notin {"Running", "Finished", "Finished (Exit Code)"}

\* C6: a Kill called when no handle is in Running ends with the status
\* "Not running", signals no process and leaves the handle, the QProcess
\* objects and the processes unchanged.
C6_IdleKillIsNoOp ==
    [][ (KillCall /\ ~HandleRunning) =>
            /\ status' = Text("Not running")
            /\ procs' = procs
            /\ process' = process
            /\ qprocs' = qprocs ]_vars

C6_Witness ==
    /\ process # 0 /\ qprocs[process].state = "Starting"
    /\ procs[qprocs[process].pid].alive
    /\ status = Text("Not running")

\* C7: a Kill on a handle in Running that does not signal the group signals
\* the leader instead, and leaves the handle None.
C7_KillFaultFallsBack ==
    [][ (KillCall /\ HandleRunning /\ procs'[qprocs[process].pid].sig # "group") =>
            /\ procs'[qprocs[process].pid].sig = "leader"
            /\ process' = 0 ]_vars

\* A QProcess sees the death of its child: it leaves Running and stays alive.
DiedStep(o) ==
    /\ qprocs[o].live /\ qprocs[o].state = "Running"
    /\ qprocs'[o].live /\ qprocs'[o].state = "NotRunning"

ExitTexts == {"Crashed", "Finished", "Finished (Exit Code)"}

\* C16: when a QProcess sees the death of its child, the status is "Crashed"
\* exactly when the child was killed by a signal, else "Finished" for the exit
\* code 0 and "Finished (Exit Code: c)" for a code c # 0; and the status only
\* becomes one of the three in such a step, for a child forked by a Launch.
C16_ExitStatusReported ==
    [][ /\ \A o \in DOMAIN qprocs :
               DiedStep(o) =>
                   LET p == procs[qprocs[o].pid] IN
                   /\ ~p.alive
                   /\ status' = IF p.crashed THEN Text("Crashed")
                                ELSE IF p.code = 0 THEN Text("Finished")
                                ELSE TextCode("Finished (Exit Code)", p.code)
        /\ (status'.text \in ExitTexts /\ status' # status) =>
               \E o \in DOMAIN qprocs : DiedStep(o) /\ qprocs[o].pid \in DOMAIN procs ]_vars

C16_Witness ==
    /\ status = Text("Crashed")
    /\ process # 0 /\ qprocs[process].state = "NotRunning" /\ qprocs[process].pid # 0
    /\ ~procs[qprocs[process].pid].alive

\* C17: no slot of the supervisor makes a blocking call (the fork of
\* QProcess.start, the wait of waitForFinished) in the interactive thread.
C17_NoBlockingCallInInteractiveThread == blocked = ""

\* C18: when a QProcess confirms the start of its child, the status is
\* "Running" with the name of the instance that the Launch which forked the
\* child was called for.
C18_RunningNamesLaunchedInstance ==
    [][ \A o \in DOMAIN qprocs :
            (qprocs[o].state = "Starting" /\ qprocs'[o].state = "Running") =>
                status' = TextName("Running", qprocs[o].arg) ]_vars

\* C19: at most one of the processes forked by Launch is alive.
C19_AtMostOneAlive == Cardinality({ p \in DOMAIN procs : procs[p].alive }) <= 1

\* C20: no exception leaves a Launch, and a Launch that forked no process does
\* not leave the status at "Launching ...".
C20_LaunchFaultReported ==
    [][ LaunchCall =>
            /\ exc' = ""
            /\ procs' = procs => status'.text # "Launching" ]_vars

\* The statuses of the terminal outcomes: Finished, Crashed, Failed to start
\* and Killed.
TerminalTexts ==
    {"Finished", "Finished (Exit Code)", "Crashed",
     "Error: Binary not found or failed to start", "Killed"}

\* C21: a Launch called when the status is that of a terminal outcome does not
\* end with "Already running" and forks a process.
C21_TerminalOutcomeIsLaunchable ==
    [][ (LaunchCall /\ status.text \in TerminalTexts) =>
            /\ status'.text # "Already running"
            /\ Len(procs') = Len(procs) + 1 ]_vars

----------------------------------------------------------------------------
\* Claims about the download job

ProgressOf(job) == SelectSeq(job.emitted, LAMBDA e : e.kind = "progress")

TerminalsOf(job) == SelectSeq(job.emitted, LAMBDA e : e.kind \in {"finished", "error"})

NonDecreasing(es) == \A i \in 1..(Len(es) - 1) : es[i].value <= es[i + 1].value

\* C8: for a job whose server declares N > 0 bytes and delivers exactly N in
\* non-empty chunks, the progress values emitted never decrease, the progress
\* emitted with the last byte is 100, and finished is emitted once, last, right
\* after that progress.
C8_ProgressReaches100 ==
    \A j \in DOMAIN jobs :
        LET job == jobs[j] IN
        (job.total > 0 /\ job.body = job.total) =>
            /\ NonDecreasing(ProgressOf(job))
            /\ job.left = 0 =>
                   ProgressOf(job)[Len(ProgressOf(job))].value = 100
            /\ \A i \in DOMAIN job.emitted :
                   job.emitted[i].kind = "finished" =>
                       /\ i = Len(job.emitted)
                       /\ i > 1
                       /\ job.emitted[i - 1] = Event(j, "progress", 100)

C8_Witness ==
    \E j \in DOMAIN jobs :
        /\ jobs[j].total = 3 /\ jobs[j].body = 3
        /\ jobs[j].emitted = << Event(j, "progress", 33), Event(j, "progress", 66),
                                Event(j, "progress", 100), Event(j, "finished", 0) >>

\* C9: a job emits at most one terminal signal and nothing after it: a job in
\* which a step of run() raised has emitted error once and never finished, and
\* a job that ended without a fault has emitted finished once and never error.
C9_OneTerminalEvent ==
    \A j \in DOMAIN jobs :
        LET job == jobs[j] IN
        /\ Len(TerminalsOf(job)) <= 1
        /\ job.fault => TerminalsOf(job) = << Event(j, "error", 0) >>
        /\ job.fault => job.emitted[Len(job.emitted)].kind = "error"
        /\ (~job.fault /\ job.pc = "done") => TerminalsOf(job) = << Event(j, "finished", 0) >>
        /\ (~job.fault /\ job.pc # "done") => TerminalsOf(job) = <<>>

C9_Witness ==
    \E j \in DOMAIN jobs :
        /\ jobs[j].fault /\ jobs[j].pc = "done"
        /\ jobs[j].downloaded > 0 /\ jobs[j].left > 0
        /\ Len(ProgressOf(jobs[j])) > 0

\* C10: at most one worker has not yet emitted finished or error.
C10_OneWorkerAtATime ==
    Cardinality({ j \in DOMAIN jobs : jobs[j].pc # "done" }) <= 1

\* C11: once the dialog of a job has been cancelled, its worker receives and
\* writes no further chunk.
C11_CancelStopsTransfer ==
    [][ \A j \in DOMAIN jobs :
            jobs[j].cancelled => jobs'[j].downloaded = jobs[j].downloaded ]_vars

\* C15: every progress value a job emits is between 0 and 100.
C15_PercentInRange ==
    \A j \in DOMAIN jobs :
        \A i \in DOMAIN jobs[j].emitted :
            jobs[j].emitted[i].kind = "progress" => jobs[j].emitted[i].value \in 0..100

\* The slot of the finished signal runs for the event at the head of the queue;
\* the slot of the error signal does.
FinishedDelivered == mainq # <<>> /\ Head(mainq).kind = "finished" /\ mainq' = Tail(mainq)

ErrorDelivered == mainq # <<>> /\ Head(mainq).kind = "error" /\ mainq' = Tail(mainq)

\* C22: the delivery of a finished signal appends exactly the instance (display
\* name, file path) of its job to the registry and the backing file is the
\* dump of the result; the delivery of an error signal changes neither.
C22_CompletedRegistersOnce ==
    [][ /\ FinishedDelivered =>
               /\ instances' = Append(instances,
                                      Instance(DisplayName(jobs[Head(mainq).job].version),
                                               FilePath(jobs[Head(mainq).job].asset)))
               /\ file' = SavedFile(instances')
        /\ ErrorDelivered => (instances' = instances /\ file' = file) ]_vars

\* C23: the delivery of the finished signal of a job whose dialog was cancelled
\* adds no instance to the registry.
C23_CancelledJobAddsNothing ==
    [][ (FinishedDelivered /\ jobs[Head(mainq).job].cancelled) =>
            instances' = instances ]_vars

----------------------------------------------------------------------------
\* Claims about the registry

\* C12: after every operation a load of the backing file returns the
\* in-memory list.
C12_FileEqualsMemory == load_instances(file) = instances

\* C13: remove_instance(index) with index out of range changes neither the
\* list nor the file; with index in range it deletes the element at that
\* position, keeps the others in their order, and the file is the dump of the
\* result.
C13_RemoveAt ==
    [][ \A index \in -1..(MaxInstances + 1), wr \in WriteOutcomes :
            remove_instance_call(index, wr) =>
                IF index < 0 \/ index >= Len(instances)
                THEN instances' = instances /\ file' = file
                ELSE /\ instances' = [i \in 1..(Len(instances) - 1) |->
                                         IF i <= index THEN instances[i] ELSE instances[i + 1]]
                     /\ file' = SavedFile(instances') ]_vars

\* C14: a load of a file that is missing, unreadable or not JSON returns the
\* empty list; and when add_instance(name, path) is called after such a load,
\* a load of the file returns the list of that one instance.
C14_FaultyLoadThenAdd ==
    [][ \A inst \in RegInputs, wr \in WriteOutcomes :
            ( /\ file.kind # "json"
              /\ instances = load_instances(file)
              /\ add_instance_call(inst.name, inst.path, wr) ) =>
                /\ instances = <<>>
                /\ load_instances(file') = <<inst>> ]_vars

====
